---- MODULE Spec2Model ----
(***************************************************************************)
(* PAR/REC header handling of nibabel (nibabel/parrec.py).                 *)
(*                                                                         *)
(* The module models the slice table (image_defs), the general information *)
(* (general_info), the volume grouping primitives vol_numbers and          *)
(* vol_is_full, the slice sorting of a header and the construction of a    *)
(* PARRECHeader.                                                           *)
(*                                                                         *)
(* The specifications share the variables:                                 *)
(*   SpecVol   the pure functions vol_numbers / vol_is_full on bounded     *)
(*             sequences of slice numbers;                                 *)
(*   SpecSort  get_sorted_slice_indices / get_volume_labels on shuffled    *)
(*             slice tables;                                               *)
(*   Spec      construction of a header from (general_info, image_defs),   *)
(*             with and without permit_truncated;                          *)
(*   SpecProp  _get_unique_image_prop on small tables;                     *)
(*   SpecGeom  slice orientation and affine of a header;                   *)
(*   SpecScale get_data_scaling on uniform and per-slice scalings;         *)
(*   SpecQuery the derivation queries of a header, in any order;           *)
(*   SpecMemo  slice orientation and affine of a header whose table is     *)
(*             assigned to between queries;                                *)
(*   SpecParse parse_PAR_header on short PAR files;                        *)
(*   SpecCopy  the objects a header, its copy and its caller hold.         *)
(***************************************************************************)
EXTENDS Integers, Sequences, FiniteSets, TLC

VARIABLES
    slice_nos,      \* SpecVol: the sequence handed to vol_numbers / vol_is_full
    slice_count,    \* SpecVol: second argument of vol_is_full
    slice_min,      \* SpecVol: third argument of vol_is_full (default 1)
    general_info,   \* the "General Information" mapping of the PAR file
    image_defs,     \* the slice table handed to / held by the header
    orig_defs,      \* the slice table as acquired (before shuffling / truncation)
    strict_sort,    \* the header's strict_sort flag
    hdr,            \* the header produced by the last construction
    wlist,          \* number of warnings recorded during the last construction
    out,            \* outcome of the last query
    fobj,           \* SpecParse: the lines of the PAR file handed to the parser
    mem             \* SpecCopy: the objects callers and headers refer to

vars == <<slice_nos, slice_count, slice_min, general_info, image_defs,
          orig_defs, strict_sort, hdr, wlist, out, fobj, mem>>

volVars == <<slice_nos, slice_count, slice_min>>
ioVars == <<fobj, mem>>
hdrVars == <<general_info, image_defs, orig_defs, strict_sort, hdr, wlist>>

----------------------------------------------------------------------------
(* Bounds *)

MaxLen == 5         \* longest sequence of slice numbers in SpecVol
MaxSliceNo == 4     \* slice numbers of SpecVol range over 0..MaxSliceNo
MaxCount == 3       \* slice_count of SpecVol ranges over 1..MaxCount
MaxMin == 1         \* slice_min of SpecVol ranges over 0..MaxMin

----------------------------------------------------------------------------
(* Generic helpers *)

Range(s) == {s[i] : i \in DOMAIN s}

RECURSIVE SeqsUpTo(_, _)
SeqsUpTo(S, n) ==
    IF n = 0 THEN {<<>>}
    ELSE LET shorter == SeqsUpTo(S, n - 1)
         IN shorter \cup {Append(s, x) : s \in {t \in shorter : Len(t) = n - 1}, x \in S}

Max(S) == CHOOSE x \in S : \A y \in S : y <= x

\* outcome of a call: the exception it raised ("none" when it returned) and
\* the value it returned
Returned(op, value) == [op |-> op, args |-> <<>>, raised |-> "none", value |-> value]
Raised(op, exc) == [op |-> op, args |-> <<>>, raised |-> exc, value |-> <<>>]
NoCall == [op |-> "none", args |-> <<>>, raised |-> "none", value |-> <<>>]

\* the outcome of a call together with the arguments it was given
WithArgs(outcome, args) == [outcome EXCEPT !.args = args]

----------------------------------------------------------------------------
(* vol_numbers: a counter per slice number, read then incremented while     *)
(* walking the sequence.                                                    *)

RECURSIVE vol_numbers_from(_, _, _)
vol_numbers_from(slice_nos_, i, counter) ==
    IF i > Len(slice_nos_) THEN <<>>
    ELSE LET s_no == slice_nos_[i]
             vol_no == IF s_no \in DOMAIN counter THEN counter[s_no] ELSE 0
             counter2 == [k \in (DOMAIN counter) \cup {s_no} |->
                             IF k = s_no THEN vol_no + 1 ELSE counter[k]]
         IN <<vol_no>> \o vol_numbers_from(slice_nos_, i + 1, counter2)

\* mutant: a value not yet seen in the volume that is currently open joins
\* that volume instead of volume 0 ("current open volume" membership)
vol_numbers_open_volume(slice_nos_) ==
    LET plain == vol_numbers_from(slice_nos_, 1, <<>>)
    IN [i \in DOMAIN slice_nos_ |-> Max({plain[j] : j \in 1..i})]

vol_numbers(slice_nos_) == vol_numbers_from(slice_nos_, 1, <<>>)

----------------------------------------------------------------------------
(* vol_is_full *)

\* mutant: the volume must hold exactly the declared slice numbers
vol_is_full_exact(slice_nos_, slice_count_, slice_min_) ==
    IF \E i \in DOMAIN slice_nos_ : slice_nos_[i] < slice_min_
    THEN Raised("vol_is_full", "ValueError")
    ELSE LET vol_nos == vol_numbers(slice_nos_)
             slice_set == slice_min_ .. (slice_min_ + slice_count_ - 1)
             ours(v) == {i \in DOMAIN slice_nos_ : vol_nos[i] = v}
         IN Returned("vol_is_full",
                [i \in DOMAIN slice_nos_ |->
                    slice_set = {slice_nos_[j] : j \in ours(vol_nos[i])}])

\* mutant: values above the declared range raise as well
vol_is_full_range_both(slice_nos_, slice_count_, slice_min_) ==
    LET slice_set == slice_min_ .. (slice_min_ + slice_count_ - 1)
    IN IF \E i \in DOMAIN slice_nos_ : slice_nos_[i] \notin slice_set
       THEN Raised("vol_is_full", "ValueError")
       ELSE LET vol_nos == vol_numbers(slice_nos_)
                ours(v) == {i \in DOMAIN slice_nos_ : vol_nos[i] = v}
            IN Returned("vol_is_full",
                   [i \in DOMAIN slice_nos_ |->
                       slice_set \subseteq {slice_nos_[j] : j \in ours(vol_nos[i])}])

vol_is_full(slice_nos_, slice_count_, slice_min_) ==
    IF \E i \in DOMAIN slice_nos_ : slice_nos_[i] < slice_min_
    THEN Raised("vol_is_full", "ValueError")
    ELSE LET vol_nos == vol_numbers(slice_nos_)
             slice_set == slice_min_ .. (slice_min_ + slice_count_ - 1)
             ours(v) == {i \in DOMAIN slice_nos_ : vol_nos[i] = v}
             is_full(v) == slice_set \subseteq {slice_nos_[j] : j \in ours(v)}
         IN Returned("vol_is_full",
                [i \in DOMAIN slice_nos_ |-> is_full(vol_nos[i])])

----------------------------------------------------------------------------
(* Idle values of the variables a specification does not use *)

NoInfo == [max_slices |-> 0]
NoHeader == [status |-> "none"]
NoMem == [objects |-> <<>>]

IdleHdr ==
    /\ general_info = NoInfo
    /\ image_defs = <<>>
    /\ orig_defs = <<>>
    /\ strict_sort = FALSE
    /\ hdr = NoHeader
    /\ wlist = 0

----------------------------------------------------------------------------
(* SpecVol: the grouping primitives on bounded sequences *)

InitVol ==
    /\ slice_nos \in SeqsUpTo(0..MaxSliceNo, MaxLen)
    /\ slice_count \in 1..MaxCount
    /\ slice_min \in 0..MaxMin
    /\ out = NoCall
    /\ fobj = <<>>
    /\ mem = NoMem
    /\ IdleHdr

CallVolNumbers ==
    /\ out' = Returned("vol_numbers", vol_numbers(slice_nos))
    /\ UNCHANGED <<ioVars, volVars, hdrVars>>

CallVolIsFull ==
    /\ out' = vol_is_full(slice_nos, slice_count, slice_min)
    /\ UNCHANGED <<ioVars, volVars, hdrVars>>

NextVol == CallVolNumbers \/ CallVolIsFull

SpecVol == InitVol /\ [][NextVol]_vars

----------------------------------------------------------------------------
(* Claims on vol_numbers / vol_is_full *)

\* number of positions before i that hold the same slice number as position i
PriorOccurrences(seq, i) == Cardinality({j \in 1..(i - 1) : seq[j] = seq[i]})

\* C1: vol_numbers returns, at every position i, the number of earlier
\* positions holding the same slice number as position i (0-based),
\* whatever values lie in between; [1,3,0,0,4] gives [0,0,0,1,0].
C1_VolNumbersCountsPriorOccurrences ==
    out.op = "vol_numbers" =>
        /\ out.raised = "none"
        /\ Len(out.value) = Len(slice_nos)
        /\ \A i \in DOMAIN slice_nos : out.value[i] = PriorOccurrences(slice_nos, i)
        /\ (slice_nos = <<1, 3, 0, 0, 4>> => out.value = <<0, 0, 0, 1, 0>>)

C1_Witness ==
    /\ out.op = "vol_numbers"
    /\ slice_nos = <<1, 3, 0, 0, 4>>
    /\ out.value = <<0, 0, 0, 1, 0>>

\* C2: when no value of seq is below slice_min, vol_is_full returns at
\* position i TRUE exactly when every integer of
\* slice_min .. slice_min+slice_count-1 occurs among the values of seq
\* sharing position i's occurrence index; positions of one occurrence group
\* get the same boolean.
C2_VolIsFullPerOccurrenceGroup ==
    (out.op = "vol_is_full" /\ \A i \in DOMAIN slice_nos : slice_nos[i] >= slice_min) =>
        /\ out.raised = "none"
        /\ DOMAIN out.value = DOMAIN slice_nos
        /\ \A i \in DOMAIN slice_nos :
              out.value[i] <=>
                 \A k \in slice_min .. (slice_min + slice_count - 1) :
                    \E j \in DOMAIN slice_nos :
                       /\ PriorOccurrences(slice_nos, j) = PriorOccurrences(slice_nos, i)
                       /\ slice_nos[j] = k
        /\ \A i, j \in DOMAIN slice_nos :
              PriorOccurrences(slice_nos, i) = PriorOccurrences(slice_nos, j)
                 => out.value[i] = out.value[j]

\* a second volume that is incomplete next to a first volume that is complete
\* and holds a value above the declared range
C2_Witness ==
    /\ out.op = "vol_is_full"
    /\ slice_nos = <<3, 2, 1, 2, 3>>
    /\ slice_count = 2
    /\ slice_min = 1
    /\ out.raised = "none"
    /\ out.value = <<TRUE, TRUE, TRUE, FALSE, FALSE>>

\* C3: vol_is_full raises ValueError exactly when some value of seq is
\* strictly below slice_min; values above slice_min+slice_count-1 never
\* make it raise.
C3_VolIsFullRaisesOnlyBelowMin ==
    out.op = "vol_is_full" =>
        /\ out.raised \in {"none", "ValueError"}
        /\ (out.raised = "ValueError") <=>
              (\E i \in DOMAIN slice_nos : slice_nos[i] < slice_min)

\* a value above the declared range, none below slice_min: no exception
C3_Witness ==
    /\ out.op = "vol_is_full"
    /\ \E i \in DOMAIN slice_nos : slice_nos[i] > slice_min + slice_count - 1
    /\ \A i \in DOMAIN slice_nos : slice_nos[i] >= slice_min
    /\ out.raised = "none"

----------------------------------------------------------------------------
(* Slice tables.  A record of image_defs carries the slice number, the      *)
(* volume-defining fields, its index in the REC file, the pixel size and    *)
(* the recon resolution.  The remaining fields of image_def_dtd (slice gap, *)
(* slice thickness, pixel spacing, ...) hold one value throughout every     *)
(* generated table and are left out of the records.                         *)

MaxSlices == 2      \* slices per volume of a generated table
MaxEchoes == 2      \* echoes
MaxTypes == 2       \* image types (image_type_mr 0 .. MaxTypes-1)
MaxBvals == 2       \* diffusion b values
MaxGrads == 2       \* gradient orientations
MaxLabels == 2      \* ASL label types
MaxDynamics == 3    \* dynamics
MaxRecs == 6        \* largest number of records of a generated table

\* an acquisition: how many values each field takes
Layouts ==
    {l \in [ns : 1..MaxSlices, ne : 1..MaxEchoes, nt : 1..MaxTypes,
            nb : 1..MaxBvals, ng : 1..MaxGrads, nl : 1..MaxLabels,
            nd : 1..MaxDynamics] :
        l.ns * l.ne * l.nt * l.nb * l.ng * l.nl * l.nd <= MaxRecs}

NRecs(l) == l.ns * l.ne * l.nt * l.nb * l.ng * l.nl * l.nd

\* the k-th record (0-based) of the acquisition, volume by volume, slices
\* ascending within a volume
SliceRecord(l, k, pix) ==
    ("slice number"                :> (k % l.ns) + 1) @@
    ("echo number"                 :> ((k \div l.ns) % l.ne) + 1) @@
    ("image_type_mr"               :> (k \div (l.ns * l.ne)) % l.nt) @@
    ("diffusion b value number"    :> ((k \div (l.ns * l.ne * l.nt)) % l.nb) + 1) @@
    ("gradient orientation number" :> ((k \div (l.ns * l.ne * l.nt * l.nb)) % l.ng) + 1) @@
    ("label type"                  :> ((k \div (l.ns * l.ne * l.nt * l.nb * l.ng)) % l.nl) + 1) @@
    ("dynamic scan number"         :> ((k \div (l.ns * l.ne * l.nt * l.nb * l.ng * l.nl)) % l.nd) + 1) @@
    ("index in REC file"           :> k) @@
    ("image pixel size"            :> pix) @@
    ("recon resolution"            :> <<64, 64>>) @@
    ("slice orientation"           :> 1) @@
    ("pixel spacing"               :> <<30, 30>>) @@
    ("slice thickness"             :> 30) @@
    ("slice gap"                   :> 3) @@
    ("rescale intercept"           :> 0) @@
    ("rescale slope"               :> 2) @@
    ("scale slope"                 :> 3)

Table(l, pix) == [i \in 1..NRecs(l) |-> SliceRecord(l, i - 1, pix)]

\* the general information announcing the acquisition
GeneralInfo(l) ==
    [ max_slices           |-> l.ns,
      max_echoes           |-> l.ne,
      max_dynamics         |-> l.nd,
      max_diffusion_values |-> l.nb,
      max_gradient_orient  |-> l.ng,
      nr_label_types       |-> l.nl,
      repetition_time      |-> 2000 ]

column(defs, name) == [i \in DOMAIN defs |-> defs[i][name]]

----------------------------------------------------------------------------
(* np.lexsort: successive stable sorts, the last key being the primary one *)

RECURSIVE insert_stable(_, _, _)
insert_stable(order, i, key) ==
    IF order = <<>> THEN <<i>>
    ELSE IF key[order[Len(order)]] <= key[i] THEN Append(order, i)
    ELSE Append(insert_stable(SubSeq(order, 1, Len(order) - 1), i, key),
                order[Len(order)])

RECURSIVE stable_argsort(_, _, _)
stable_argsort(order, key, n) ==
    IF n = 0 THEN <<>>
    ELSE insert_stable(stable_argsort(order, key, n - 1), order[n], key)

RECURSIVE lexsort_from(_, _, _)
lexsort_from(keys, k, order) ==
    IF k > Len(keys) THEN order
    ELSE lexsort_from(keys, k + 1, stable_argsort(order, keys[k], Len(order)))

lexsort(keys, n) == lexsort_from(keys, 1, [i \in 1..n |-> i])

----------------------------------------------------------------------------
(* get_volume_labels / get_sorted_slice_indices *)

\* the volume-defining fields, in the priority order of the labels
volume_fields ==
    << "echo number", "image_type_mr", "diffusion b value number",
       "gradient orientation number", "label type", "dynamic scan number" >>

\* mutant: every volume-defining field is reported, varying or not
is_varying_always(defs, name) == TRUE

is_varying(defs, name) == Cardinality(Range(column(defs, name))) > 1

\* the volume-defining fields taking more than one value, in priority order
varying_fields(defs) == SelectSeq(volume_fields, LAMBDA f : is_varying(defs, f))

\* mutant: the priority list read as outermost-first (echo number is the
\* primary key, dynamic scan number the innermost volume key)
strict_sort_keys_echo_outermost(defs) ==
    LET vf == varying_fields(defs)
    IN <<column(defs, "slice number")>>
       \o [k \in 1..Len(vf) |-> column(defs, vf[Len(vf) + 1 - k])]

\* mutant: image type sorted inside the echoes
strict_sort_keys_type_innermost(defs) ==
    LET vf == SelectSeq(<< "image_type_mr", "echo number", "diffusion b value number",
                           "gradient orientation number", "label type",
                           "dynamic scan number" >>,
                        LAMBDA f : is_varying(defs, f))
    IN <<column(defs, "slice number")>> \o [k \in 1..Len(vf) |-> column(defs, vf[k])]

\* mutant: the volume number found in file order stays a sort key
strict_sort_keys_file_volumes(defs) ==
    LET vf == varying_fields(defs)
    IN <<column(defs, "slice number")>>
       \o [k \in 1..Len(vf) |-> column(defs, vf[k])]
       \o <<vol_numbers(column(defs, "slice number"))>>

\* keys of the strict sort, innermost first: slice number, then the varying
\* volume-defining fields in priority order (the last one is the primary key)
strict_sort_keys(defs) ==
    LET vf == varying_fields(defs)
    IN <<column(defs, "slice number")>> \o [k \in 1..Len(vf) |-> column(defs, vf[k])]

\* mutant: the volume number is left out of the keys
file_order_sort_keys_slices_only(defs) == <<column(defs, "slice number")>>

\* keys of the default sort: slice number within the volume found in file order
file_order_sort_keys(defs) ==
    <<column(defs, "slice number"), vol_numbers(column(defs, "slice number"))>>

get_sorted_slice_indices(defs, info, strict) ==
    IF strict
    THEN Returned("get_sorted_slice_indices", lexsort(strict_sort_keys(defs), Len(defs)))
    ELSE LET is_full == vol_is_full(column(defs, "slice number"), info.max_slices, 1)
         IN IF is_full.raised # "none"
            THEN Raised("get_sorted_slice_indices", is_full.raised)
            ELSE IF \E i \in DOMAIN defs : ~is_full.value[i]
            THEN Raised("get_sorted_slice_indices", "PARRECError")
            ELSE Returned("get_sorted_slice_indices",
                          lexsort(file_order_sort_keys(defs), Len(defs)))

\* mutant: the labels are read in file order instead of the sorted order
volume_label_values_file_order(defs, order, n_slices, name) ==
    [v \in 1..(Len(order) \div n_slices) |-> defs[(v - 1) * n_slices + 1][name]]

\* one value per emitted volume: the field of the volume's first record
volume_label_values(defs, order, n_slices, name) ==
    [v \in 1..(Len(order) \div n_slices) |-> defs[order[(v - 1) * n_slices + 1]][name]]

get_volume_labels(defs, info, strict) ==
    LET sorted == get_sorted_slice_indices(defs, info, strict)
        vf == varying_fields(defs)
    IN IF sorted.raised # "none"
       THEN Raised("get_volume_labels", sorted.raised)
       ELSE Returned("get_volume_labels",
                [k \in 1..Len(vf) |->
                    [key |-> vf[k],
                     values |-> volume_label_values(defs, sorted.value,
                                                    info.max_slices, vf[k])]])

----------------------------------------------------------------------------
(* SpecSort: a header whose image_defs get shuffled, then queried *)

InitSort ==
    /\ \E l \in Layouts :
          /\ orig_defs = Table(l, 16)
          /\ image_defs = Table(l, 16)
          /\ general_info = GeneralInfo(l)
    /\ strict_sort \in BOOLEAN
    /\ hdr = NoHeader
    /\ wlist = 0
    /\ out = NoCall
    /\ fobj = <<>>
    /\ mem = NoMem
    /\ slice_nos = <<>>
    /\ slice_count = 1
    /\ slice_min = 1

\* hdr.image_defs = _shuffle(hdr.image_defs), one transposition at a time
Shuffle ==
    /\ \E i, j \in DOMAIN image_defs :
          /\ i < j
          /\ image_defs' = [image_defs EXCEPT ![i] = image_defs[j], ![j] = image_defs[i]]
    /\ out' = NoCall
    /\ UNCHANGED <<ioVars, volVars, general_info, orig_defs, strict_sort, hdr, wlist>>

GetSortedSliceIndices ==
    /\ out' = get_sorted_slice_indices(image_defs, general_info, strict_sort)
    /\ UNCHANGED <<ioVars, volVars, hdrVars>>

GetVolumeLabels ==
    /\ out' = get_volume_labels(image_defs, general_info, strict_sort)
    /\ UNCHANGED <<ioVars, volVars, hdrVars>>

NextSort == Shuffle \/ GetSortedSliceIndices \/ GetVolumeLabels

SpecSort == InitSort /\ [][NextSort]_vars

----------------------------------------------------------------------------
(* Claims on get_sorted_slice_indices / get_volume_labels *)

Reverse(s) == [i \in 1..Len(s) |-> s[Len(s) + 1 - i]]

\* the records an index sequence selects, in that order
selected(defs, order) == [p \in DOMAIN order |-> defs[order[p]]]

\* r1 does not come after r2 when compared field by field, prio[1] first
RECURSIVE LexLeq(_, _, _)
LexLeq(r1, r2, prio) ==
    IF prio = <<>> THEN TRUE
    ELSE \/ r1[Head(prio)] < r2[Head(prio)]
         \/ /\ r1[Head(prio)] = r2[Head(prio)]
            /\ LexLeq(r1, r2, Tail(prio))

OrderedBy(recs, prio) ==
    \A p \in 1..(Len(recs) - 1) : LexLeq(recs[p], recs[p + 1], prio)

SameOn(r1, r2, fields) == \A f \in fields : r1[f] = r2[f]

Shuffled == image_defs # orig_defs

Varies(name) == \E i, j \in DOMAIN image_defs : image_defs[i][name] # image_defs[j][name]

\* C4: with strict_sort the records selected from a permuted table are the
\* records selected from the unpermuted table, in the same order, and the
\* volume labels are the same.
C4_StrictSortIgnoresInputOrder ==
    strict_sort =>
        /\ out.op = "get_sorted_slice_indices" =>
              /\ out.raised = "none"
              /\ selected(image_defs, out.value)
                    = selected(orig_defs,
                               get_sorted_slice_indices(orig_defs, general_info, TRUE).value)
        /\ out.op = "get_volume_labels" =>
              out = get_volume_labels(orig_defs, general_info, TRUE)

C4_Witness ==
    /\ strict_sort
    /\ out.op = "get_sorted_slice_indices"
    /\ Len(image_defs) = 4
    /\ image_defs = Reverse(orig_defs)
    /\ Varies("echo number")
    /\ Varies("slice number")

C7_FileOrderSort ==
    (~strict_sort /\ out.op = "get_sorted_slice_indices") =>
        LET n == Len(image_defs)
            sl == column(image_defs, "slice number")
            vol(i) == PriorOccurrences(sl, i)
            ns == general_info.max_slices
            Before(a, b) == vol(a) < vol(b) \/ (vol(a) = vol(b) /\ sl[a] < sl[b])
        IN /\ out.raised = "none"
           /\ Len(out.value) = n
           /\ Range(out.value) = 1..n
           /\ \A p \in 1..(n - 1) : Before(out.value[p], out.value[p + 1])
           /\ (\A i \in 1..(n - 1) : Before(i, i + 1)) => out.value = [i \in 1..n |-> i]
           /\ image_defs = Reverse(orig_defs) =>
                 \A v \in 1..(n \div ns), s \in 1..ns :
                    out.value[(v - 1) * ns + s] = v * ns - s + 1

C7_Witness ==
    /\ ~strict_sort
    /\ out.op = "get_sorted_slice_indices"
    /\ Len(image_defs) = 6
    /\ general_info.max_slices = 2
    /\ image_defs = Reverse(orig_defs)
    /\ out.value = <<2, 1, 4, 3, 6, 5>>

\* C8: get_volume_labels returns one entry for exactly the volume-defining
\* fields taking more than one value in the table, in priority order; each
\* entry holds one value per volume, the v-th being the value found in the
\* v-th volume emitted by get_sorted_slice_indices; with only dynamic scan
\* number varying over {1,2,3} the result is the single entry
\* 'dynamic scan number' -> [1,2,3].
C8_VolumeLabels ==
    out.op = "get_volume_labels" =>
        LET order == get_sorted_slice_indices(image_defs, general_info, strict_sort).value
            ns == general_info.max_slices
            nvols == 1 + Max({PriorOccurrences(column(image_defs, "slice number"), i) :
                                 i \in DOMAIN image_defs})
            keys == [k \in DOMAIN out.value |-> out.value[k].key]
            pos(f) == CHOOSE k \in DOMAIN volume_fields : volume_fields[k] = f
            block(v) == ((v - 1) * ns + 1) .. (v * ns)
        IN /\ out.raised = "none"
           /\ Range(keys) = {f \in Range(volume_fields) : Varies(f)}
           /\ \A a, b \in DOMAIN keys : a < b => pos(keys[a]) < pos(keys[b])
           /\ \A k \in DOMAIN out.value :
                 /\ Len(out.value[k].values) = nvols
                 /\ \A v \in 1..nvols :
                       \E p \in block(v) :
                          image_defs[order[p]][keys[k]] = out.value[k].values[v]
                 /\ strict_sort =>
                       \A v \in 1..nvols : \A p \in block(v) :
                          image_defs[order[p]][keys[k]] = out.value[k].values[v]
           /\ ( /\ {f \in Range(volume_fields) : Varies(f)} = {"dynamic scan number"}
                /\ Range(column(image_defs, "dynamic scan number")) = {1, 2, 3}
                /\ (strict_sort \/ ~Shuffled) )
              => out.value = << [key |-> "dynamic scan number", values |-> <<1, 2, 3>>] >>

C8_Witness ==
    /\ out.op = "get_volume_labels"
    /\ strict_sort
    /\ Shuffled
    /\ general_info.max_slices = 2
    /\ out.value = << [key |-> "dynamic scan number", values |-> <<1, 2, 3>>] >>

----------------------------------------------------------------------------
(* PARRECHeader: construction *)

ArrayFields == {"recon resolution", "pixel spacing", "image angulation"}

\* np.unique of a column / of one record's array: the distinct values
unique(values) == Range(values)

\* _get_unique_image_prop: for an array field the loop runs over
\* range(len(prop.shape)), i.e. over the first two records of the table
get_unique_image_prop(defs, name) ==
    IF name \in ArrayFields
    THEN IF Len(defs) < 2
         THEN Raised("_get_unique_image_prop", "IndexError")
         ELSE LET uprops == <<unique(defs[1][name]), unique(defs[2][name])>>
              IN IF Cardinality(uprops[1]) * Cardinality(uprops[2]) # 1
                 THEN Raised("_get_unique_image_prop", "PARRECError")
                 ELSE Returned("_get_unique_image_prop",
                               [k \in 1..2 |-> CHOOSE x \in uprops[k] : TRUE])
    ELSE LET uprop == unique(column(defs, name))
         IN IF Cardinality(uprop) # 1
            THEN Raised("_get_unique_image_prop", "PARRECError")
            ELSE Returned("_get_unique_image_prop", <<CHOOSE x \in uprop : TRUE>>)

get_ndim(info) ==
    IF info.max_dynamics > 1 \/ info.max_gradient_orient > 1 THEN 4 ELSE 3

get_data_shape_in_file(info, defs) ==
    LET ndynamics == Cardinality(unique(column(defs, "dynamic scan number")))
        ndtivolumes == (info.max_diffusion_values - 1) * info.max_gradient_orient
        nslices == Cardinality(unique(column(defs, "slice number")))
        inplane_shape == get_unique_image_prop(defs, "recon resolution")
    IN IF nslices # info.max_slices
       THEN Raised("get_data_shape_in_file", "PARRECError")
       ELSE IF inplane_shape.raised # "none"
       THEN Raised("get_data_shape_in_file", inplane_shape.raised)
       ELSE IF ndynamics > 1
       THEN Returned("get_data_shape_in_file", inplane_shape.value \o <<nslices, ndynamics>>)
       ELSE IF ndtivolumes > 1
       THEN Returned("get_data_shape_in_file", inplane_shape.value \o <<nslices, ndtivolumes>>)
       ELSE Returned("get_data_shape_in_file", inplane_shape.value \o <<nslices>>)

\* get_voxel_size: (in-plane spacing x, y, slice thickness without gap)
get_voxel_size(defs) ==
    LET slice_thickness == get_unique_image_prop(defs, "slice thickness")
        voxsize_inplane == get_unique_image_prop(defs, "pixel spacing")
    IN IF slice_thickness.raised # "none"
       THEN Raised("get_voxel_size", slice_thickness.raised)
       ELSE IF voxsize_inplane.raised # "none"
       THEN Raised("get_voxel_size", voxsize_inplane.raised)
       ELSE Returned("get_voxel_size",
                     <<voxsize_inplane.value[1], voxsize_inplane.value[2],
                       slice_thickness.value[1]>>)

\* _get_zooms: voxel size with the slice gap added on the slice axis, one
\* more entry when get_ndim is 4 (the repetition time in seconds when there
\* are dynamics; repetition times are whole seconds here)
get_zooms(info, defs) ==
    LET slice_gap == get_unique_image_prop(defs, "slice gap")
        voxsize == get_voxel_size(defs)
    IN IF slice_gap.raised # "none" THEN Raised("_get_zooms", slice_gap.raised)
       ELSE IF voxsize.raised # "none" THEN Raised("_get_zooms", voxsize.raised)
       ELSE Returned("_get_zooms",
               <<voxsize.value[1], voxsize.value[2], voxsize.value[3] + slice_gap.value[1]>>
               \o (IF get_ndim(info) > 3
                   THEN IF info.max_dynamics > 1
                        THEN <<info.repetition_time \div 1000>> ELSE <<1>>
                   ELSE <<>>))

\* the names np.typeDict knows among 'int' + str(pixel size)
typeDict_int_sizes == {8, 16, 32, 64}

\* a header, or the exception its construction raised
Header(given, permit_truncated, dtype, shape, zooms) ==
    [status |-> "ok", given |-> given, permit_truncated |-> permit_truncated,
     dtype |-> dtype, shape |-> shape, zooms |-> zooms,
     slice_orientation |-> "None", default_scaling |-> "dv"]
Failed(given, permit_truncated, exc) ==
    [status |-> exc, given |-> given, permit_truncated |-> permit_truncated,
     dtype |-> 0, shape |-> <<>>, zooms |-> <<>>, slice_orientation |-> "None",
     default_scaling |-> "dv"]

\* Header.__init__ of the base class: set_zooms wants one zoom per axis of
\* the shape
base_header_init(shape, zooms) ==
    IF Len(zooms) # Len(shape) THEN "HeaderDataError" ELSE "ok"

\* PARRECHeader.__init__(info, image_defs): dtype from the unique pixel size,
\* shape from get_data_shape_in_file, zooms from _get_zooms (get_ndim values)
header_init(info, defs) ==
    LET pix == get_unique_image_prop(defs, "image pixel size")
        shape == get_data_shape_in_file(info, defs)
        zooms == get_zooms(info, defs)
    IN IF pix.raised # "none" THEN Failed(defs, FALSE, pix.raised)
       ELSE IF pix.value[1] \notin typeDict_int_sizes THEN Failed(defs, FALSE, "KeyError")
       ELSE IF shape.raised # "none" THEN Failed(defs, FALSE, shape.raised)
       ELSE IF zooms.raised # "none" THEN Failed(defs, FALSE, zooms.raised)
       ELSE IF base_header_init(shape.value, zooms.value) # "ok"
       THEN Failed(defs, FALSE, base_header_init(shape.value, zooms.value))
       ELSE Header(defs, FALSE, pix.value[1], shape.value, zooms.value)

----------------------------------------------------------------------------
(* PARRECHeader: construction with permit_truncated (truncation resolver) *)

\* the one value a whole-series field takes
unique_series_value(defs, name) ==
    LET values == Range(column(defs, name))
    IN IF Cardinality(values) # 1
       THEN Raised("unique_series_value", "PARRECError")
       ELSE Returned("unique_series_value", CHOOSE x \in values : TRUE)

\* the observed echo / dynamic / b value / gradient orientation counts agree
\* with the declared maxima
declared_counts_match(info, defs) ==
    /\ Cardinality(Range(column(defs, "echo number"))) = info.max_echoes
    /\ Cardinality(Range(column(defs, "dynamic scan number"))) = info.max_dynamics
    /\ Cardinality(Range(column(defs, "diffusion b value number"))) = info.max_diffusion_values
    /\ Cardinality(Range(column(defs, "gradient orientation number"))) = info.max_gradient_orient

RECURSIVE select_records(_, _, _)
select_records(defs, keep, i) ==
    IF i > Len(defs) THEN <<>>
    ELSE (IF keep[i] THEN <<defs[i]>> ELSE <<>>) \o select_records(defs, keep, i + 1)

\* mutant: only the records after the last complete slice position are
\* dropped, i.e. nothing of the short volume is removed
drop_last_volume_keeps_all(defs, vol_nos, last) == defs

\* array shrink: every record of the last volume group goes
drop_last_volume(defs, vol_nos, last) ==
    select_records(defs, [i \in DOMAIN defs |-> vol_nos[i] # last], 1)

\* mutant: one warning per dropped record
truncation_warnings_per_record(defs, kept) == Len(defs) - Len(kept)

\* one truncation warning per construction that dropped data
truncation_warnings(defs, kept) == IF Len(kept) < Len(defs) THEN 1 ELSE 0

\* mutant: the volume count stays the declared one
n_volumes_declared(info, kept) ==
    Max({info.max_dynamics, (info.max_diffusion_values - 1) * info.max_gradient_orient, 1})

\* the volume count re-derived from the occurrence index of the slice numbers
n_volumes(info, kept) == 1 + Max(Range(vol_numbers(column(kept, "slice number"))))

\* outcome of a permissive construction: the header, the table it holds and
\* the warnings it emitted
Outcome(h, defs, warnings) == [hdr |-> h, image_defs |-> defs, warnings |-> warnings]

header_init_permit_truncated(info, defs) ==
    LET slice_nos_ == column(defs, "slice number")
        is_full == vol_is_full(slice_nos_, info.max_slices, 1)
    IN IF defs = <<>> THEN Outcome(Failed(defs, TRUE, "PARRECError"), defs, 0)
       ELSE IF is_full.raised # "none" THEN Outcome(Failed(defs, TRUE, is_full.raised), defs, 0)
       ELSE IF ~declared_counts_match(info, defs)
       THEN Outcome(Failed(defs, TRUE, "PARRECError"), defs, 0)
       ELSE
       LET vol_nos == vol_numbers(slice_nos_)
           last == Max(Range(vol_nos))
           short == \E i \in DOMAIN defs : ~is_full.value[i]
           only_last_short == \A i \in DOMAIN defs : ~is_full.value[i] => vol_nos[i] = last
           kept == IF short THEN drop_last_volume(defs, vol_nos, last) ELSE defs
           warnings == truncation_warnings(defs, kept)
           nslices == Cardinality(Range(column(kept, "slice number")))
           pix == unique_series_value(kept, "image pixel size")
           inplane == unique_series_value(kept, "recon resolution")
       IN IF ~only_last_short THEN Outcome(Failed(defs, TRUE, "PARRECError"), defs, 0)
          ELSE IF nslices # info.max_slices \/ pix.raised # "none" \/ inplane.raised # "none"
          THEN Outcome(Failed(defs, TRUE, "PARRECError"), kept, warnings)
          ELSE IF pix.value \notin {8, 16}
          THEN Outcome(Failed(defs, TRUE, "PARRECError"), kept, warnings)
          ELSE LET nvols == n_volumes(info, kept)
                   shape == inplane.value \o <<nslices>>
                               \o (IF nvols > 1 THEN <<nvols>> ELSE <<>>)
               IN Outcome(Header(defs, TRUE, pix.value, shape,
                                 [k \in 1..Len(shape) |-> 1]), kept, warnings)

----------------------------------------------------------------------------
(* Spec: a table is parsed, possibly cut short or announced wrongly, and a  *)
(* header is constructed from it.                                           *)

PixelSizes == {8, 16, 24, 32}

\* the general information that agrees with a table
ObservedInfo(defs) ==
    [ max_slices           |-> Cardinality(Range(column(defs, "slice number"))),
      max_echoes           |-> Cardinality(Range(column(defs, "echo number"))),
      max_dynamics         |-> Cardinality(Range(column(defs, "dynamic scan number"))),
      max_diffusion_values |-> Cardinality(Range(column(defs, "diffusion b value number"))),
      max_gradient_orient  |-> Cardinality(Range(column(defs, "gradient orientation number"))),
      nr_label_types       |-> Cardinality(Range(column(defs, "label type"))),
      repetition_time      |-> 2000 ]

MaxFields == {"max_slices", "max_echoes", "max_dynamics", "max_diffusion_values",
              "max_gradient_orient"}

Init ==
    /\ \E l \in Layouts, pix \in PixelSizes :
          /\ orig_defs = Table(l, pix)
          /\ image_defs = Table(l, pix)
          /\ general_info = GeneralInfo(l)
    /\ strict_sort = FALSE
    /\ hdr = NoHeader
    /\ wlist = 0
    /\ out = NoCall
    /\ fobj = <<>>
    /\ mem = NoMem
    /\ slice_nos = <<>>
    /\ slice_count = 1
    /\ slice_min = 1

\* slice_info[:-1]: the table loses its final record before it is handed over
DropLastRecord ==
    /\ hdr.status = "none"
    /\ image_defs # <<>>
    /\ image_defs' = SubSeq(image_defs, 1, Len(image_defs) - 1)
    /\ UNCHANGED <<ioVars, volVars, general_info, orig_defs, strict_sort, hdr, wlist, out>>

\* gen_info['max_...'] = n: one declared maximum is changed
SetDeclaredMax ==
    /\ hdr.status = "none"
    /\ general_info = ObservedInfo(orig_defs)
    /\ \E f \in MaxFields, n \in 1..(MaxDynamics + 1) :
          /\ n # general_info[f]
          /\ general_info' = [general_info EXCEPT ![f] = n]
    /\ UNCHANGED <<ioVars, volVars, image_defs, orig_defs, strict_sort, hdr, wlist, out>>

\* PARRECHeader(general_info, image_defs)
Construct ==
    /\ hdr.status = "none"
    /\ hdr' = header_init(general_info, image_defs)
    /\ wlist' = 0
    /\ UNCHANGED <<ioVars, volVars, general_info, image_defs, orig_defs, strict_sort, out>>

\* PARRECHeader(general_info, image_defs, permit_truncated=True)
ConstructPermitTruncated ==
    /\ hdr.status = "none"
    /\ LET made == header_init_permit_truncated(general_info, image_defs)
       IN /\ hdr' = made.hdr
          /\ image_defs' = made.image_defs
          /\ wlist' = made.warnings
    /\ UNCHANGED <<ioVars, volVars, general_info, orig_defs, strict_sort, out>>

Next ==
    \/ DropLastRecord
    \/ SetDeclaredMax
    \/ Construct
    \/ ConstructPermitTruncated

Spec == Init /\ [][Next]_vars

----------------------------------------------------------------------------
(* Claims on the construction of a header *)

\* the table as acquired is announced correctly and has a supported depth
WellFormedAcquisition ==
    /\ general_info = ObservedInfo(orig_defs)
    /\ orig_defs[1]["image pixel size"] \in {8, 16}

\* volumes of the table as acquired
AcquiredVolumes == Len(orig_defs) \div general_info.max_slices

\* volumes a data shape reports
ShapeVolumes(shape) == IF Len(shape) = 3 THEN 1 ELSE shape[4]

\* C9: a well-formed multi-volume table that lost the final record of its
\* last volume cannot be constructed without permit_truncated: the
\* construction raises PARRECError.
C9_TruncatedWithoutPermitFails ==
    ( /\ hdr.status # "none"
      /\ ~hdr.permit_truncated
      /\ WellFormedAcquisition
      /\ AcquiredVolumes >= 2
      /\ hdr.given = SubSeq(orig_defs, 1, Len(orig_defs) - 1) )
    => hdr.status = "PARRECError"

\* the table handed over holds its last volume only in part, after at least
\* one complete volume
LastVolumeIncomplete ==
    /\ WellFormedAcquisition
    /\ AcquiredVolumes >= 2
    /\ \E m \in 1..Len(orig_defs) :
          /\ hdr.given = SubSeq(orig_defs, 1, m)
          /\ (AcquiredVolumes - 1) * general_info.max_slices < m
          /\ m < Len(orig_defs)

Observed(name) == Cardinality(Range(column(hdr.given, name)))

\* the table handed over agrees with every declared maximum and has a
\* supported pixel size
ConsistentTable ==
    /\ hdr.given # <<>>
    /\ general_info = ObservedInfo(hdr.given)
    /\ \A i \in DOMAIN hdr.given : hdr.given[i]["image pixel size"] \in {8, 16}

\* C11: without permit_truncated a construction fails with PARRECError
\* whenever the number of distinct slice numbers differs from max_slices,
\* and a table that agrees with its general information is constructed.
C11_SliceCountChecked ==
    (hdr.status # "none" /\ ~hdr.permit_truncated) =>
        /\ (Observed("slice number") # general_info.max_slices
                => hdr.status = "PARRECError")
        /\ (ConsistentTable => hdr.status = "ok")

\* the declared maxima the construction compares with the table
CountedMaxima ==
    ("max_echoes" :> "echo number") @@
    ("max_dynamics" :> "dynamic scan number") @@
    ("max_diffusion_values" :> "diffusion b value number") @@
    ("max_gradient_orient" :> "gradient orientation number")

\* C12: without permit_truncated a construction fails with PARRECError when
\* any one of max_echoes, max_dynamics, max_diffusion_values or
\* max_gradient_orient exceeds the number of distinct values in the table.
C12_DeclaredMaximaChecked ==
    (hdr.status # "none" /\ ~hdr.permit_truncated) =>
        \A f \in DOMAIN CountedMaxima :
            general_info[f] > Observed(CountedMaxima[f]) => hdr.status = "PARRECError"

\* C14: a construction succeeds only when the table's unique image pixel
\* size is 8 or 16; with any other value it fails with PARRECError, with or
\* without permit_truncated.
C14_PixelSizeEightOrSixteen ==
    (hdr.status # "none" /\ hdr.given # <<>>
        /\ Cardinality(Range(column(hdr.given, "image pixel size"))) = 1) =>
        LET pix == hdr.given[1]["image pixel size"]
        IN /\ hdr.status = "ok" => pix \in {8, 16}
           /\ pix \notin {8, 16} => hdr.status = "PARRECError"

\* C20: the volumes of a constructed header's data shape are one more than
\* the largest occurrence index of the slice numbers it retains, and slices
\* times volumes is the number of records it retains.
C20_ShapeVolumesFromOccurrences ==
    hdr.status = "ok" =>
        /\ \A i \in DOMAIN image_defs :
              PriorOccurrences(column(image_defs, "slice number"), i) < ShapeVolumes(hdr.shape)
        /\ \E i \in DOMAIN image_defs :
              PriorOccurrences(column(image_defs, "slice number"), i) = ShapeVolumes(hdr.shape) - 1
        /\ hdr.shape[3] * ShapeVolumes(hdr.shape) = Len(image_defs)

----------------------------------------------------------------------------
(* SpecProp: _get_unique_image_prop on tables whose records agree or differ *)
(* in a scalar and in two array fields.                                     *)

MaxRows == 4        \* longest table handed to _get_unique_image_prop

PropNames == {"image pixel size", "recon resolution", "image angulation"}

\* the records of the tables: a pixel size, an in-plane resolution and an
\* angulation (whole degrees)
PropRecords ==
    { ("image pixel size" :> pix) @@ ("recon resolution" :> res) @@
      ("image angulation" :> ang) :
        pix \in {16, 32}, res \in {<<64, 64>>, <<64, 32>>},
        ang \in {<<0, 0, 0>>, <<-13, 0, 0>>} }

InitProp ==
    /\ image_defs \in SeqsUpTo(PropRecords, MaxRows)
    /\ image_defs # <<>>
    /\ orig_defs = <<>>
    /\ general_info = NoInfo
    /\ strict_sort = FALSE
    /\ hdr = NoHeader
    /\ wlist = 0
    /\ out = NoCall
    /\ fobj = <<>>
    /\ mem = NoMem
    /\ slice_nos = <<>>
    /\ slice_count = 1
    /\ slice_min = 1

\* hdr._get_unique_image_prop(name)
GetUniqueImageProp ==
    /\ \E name \in PropNames :
          out' = WithArgs(get_unique_image_prop(image_defs, name), <<name>>)
    /\ UNCHANGED <<ioVars, volVars, hdrVars>>

NextProp == GetUniqueImageProp

SpecProp == InitProp /\ [][NextProp]_vars

\* C13: _get_unique_image_prop(name) returns the common value when all
\* records hold the same value of the field (for an array field the same
\* combination of elements) and raises PARRECError when two records differ,
\* wherever in the table they are.
C13_UniqueImageProp ==
    out.op = "_get_unique_image_prop" =>
        LET name == out.args[1]
            col == column(image_defs, name)
        IN IF Cardinality(Range(col)) = 1
           THEN /\ out.raised = "none"
                /\ out.value = (IF name \in ArrayFields THEN col[1] ELSE <<col[1]>>)
           ELSE out.raised = "PARRECError"

----------------------------------------------------------------------------
(* Geometry of a header: slice orientation and affine. Lengths are whole    *)
(* even numbers of a small unit, so that the halves get_affine takes are    *)
(* exact; angulations are multiples of 90 degrees, whose sines and cosines  *)
(* are whole numbers.                                                       *)

\* slice_orientation_codes.label[code]
slice_orientation_codes ==
    (1 :> "transversal") @@ (2 :> "sagital") @@ (3 :> "coronal")

\* get_slice_orientation: the label of the unique code, remembered in
\* _slice_orientation once it has been looked up
get_slice_orientation(defs, h) ==
    IF h.slice_orientation # "None"
    THEN Returned("get_slice_orientation", h.slice_orientation)
    ELSE LET code == get_unique_image_prop(defs, "slice orientation")
         IN IF code.raised # "none"
            THEN Raised("get_slice_orientation", code.raised)
            ELSE IF code.value[1] \notin DOMAIN slice_orientation_codes
            THEN Raised("get_slice_orientation", "KeyError")
            ELSE Returned("get_slice_orientation", slice_orientation_codes[code.value[1]])

\* mutant: the slice orientation label is looked up on every call
remember_slice_orientation_never(h, looked_up) == h

\* the header after a call that looked the slice orientation up
remember_slice_orientation(h, looked_up) ==
    IF looked_up.raised = "none"
    THEN [h EXCEPT !.slice_orientation = looked_up.value]
    ELSE h

cos_deg(d) == IF d % 360 = 0 THEN 1 ELSE IF d % 360 = 180 THEN -1 ELSE 0
sin_deg(d) == IF d % 360 = 90 THEN 1 ELSE IF d % 360 = 270 THEN -1 ELSE 0

mat_mul(A, B) ==
    [i \in 1..3 |-> [j \in 1..3 |->
        A[i][1] * B[1][j] + A[i][2] * B[2][j] + A[i][3] * B[3][j]]]
mat_vec(A, v) ==
    [i \in 1..3 |-> A[i][1] * v[1] + A[i][2] * v[2] + A[i][3] * v[3]]
diag(v) == [i \in 1..3 |-> [j \in 1..3 |-> IF i = j THEN v[i] ELSE 0]]

\* rot_rl * rot_ap * rot_fh of the negated angulation (ap, fh, rl); the
\* euler2mat product asserted equal to it is the same product
rotation(angulation) ==
    LET ang == [k \in 1..3 |-> 0 - angulation[k]]
        rot_rl == << <<1, 0, 0>>,
                     <<0, cos_deg(ang[3]), 0 - sin_deg(ang[3])>>,
                     <<0, sin_deg(ang[3]), cos_deg(ang[3])>> >>
        rot_ap == << <<cos_deg(ang[1]), 0, sin_deg(ang[1])>>,
                     <<0, 1, 0>>,
                     <<0 - sin_deg(ang[1]), 0, cos_deg(ang[1])>> >>
        rot_fh == << <<cos_deg(ang[2]), 0 - sin_deg(ang[2]), 0>>,
                     <<sin_deg(ang[2]), cos_deg(ang[2]), 0>>,
                     <<0, 0, 1>> >>
    IN mat_mul(mat_mul(rot_rl, rot_ap), rot_fh)

\* recfg_data_axis of a slice orientation label
recfg_data_axis(slice_orientation) ==
    IF slice_orientation = "sagital"
    THEN << <<0, 0, 1>>, <<-1, 0, 0>>, <<0, -1, 0>> >>
    ELSE IF slice_orientation = "transversal"
    THEN << <<-1, 0, 0>>, <<0, -1, 0>>, <<0, 0, 1>> >>
    ELSE << <<-1, 0, 0>>, <<0, 0, -1>>, <<0, -1, 0>> >>

\* mutant: the field of view is left in (ap, fh, rl) order
permuted_fov_unpermuted(fov, slice_orientation) == fov

\* the field of view (ap, fh, rl) put in the order of the data axes
permuted_fov(fov, slice_orientation) ==
    IF slice_orientation = "sagital" THEN fov
    ELSE IF slice_orientation = "transversal" THEN <<fov[3], fov[1], fov[2]>>
    ELSE <<fov[3], fov[2], fov[1]>>

\* off_center[[2,0,1]] * [-1,-1,0]
iso_offset(off_center) ==
    <<(-1) * off_center[3], (-1) * off_center[1], 0 * off_center[2]>>

\* get_affine(origin): [block, translation] of the 4x4 affine
\* mutant: ang_rad is the header's own angulation array, negated in place
ang_rad_in_place(info) ==
    [general_info |-> [info EXCEPT !.angulation = [k \in 1..3 |-> 0 - info.angulation[k]]],
     ang_rad |-> [k \in 1..3 |-> 0 - info.angulation[k]]]

\* ang_rad = general_info['angulation'] * pi / 180; ang_rad *= -1: the
\* product is a new array, and that one is negated in place
ang_rad(info) ==
    [general_info |-> info,
     ang_rad |-> [k \in 1..3 |-> 0 - info.angulation[k]]]

get_affine(info, defs, h, origin) ==
    LET voxsize == get_voxel_size(defs)
        slice_orientation == get_slice_orientation(defs, h)
    IN IF voxsize.raised # "none" THEN Raised("get_affine", voxsize.raised)
       ELSE IF slice_orientation.raised # "none"
       THEN Raised("get_affine", slice_orientation.raised)
       ELSE IF slice_orientation.value \notin {"sagital", "transversal", "coronal"}
       THEN Raised("get_affine", "PARRECError")
       ELSE
       LET fov == permuted_fov(info.fov, slice_orientation.value)
           rot == mat_mul(rotation(info.angulation),
                          recfg_data_axis(slice_orientation.value))
           fov_center_offset ==
               mat_vec(rot, [k \in 1..3 |-> (voxsize.value[k] \div 2) - (fov[k] \div 2)])
           scaled == mat_mul(rot, diag(SubSeq(h.zooms, 1, 3)))
           iso == iso_offset(info.off_center)
       IN Returned("get_affine",
             [block |-> scaled,
              translation |->
                 IF origin = "scanner"
                 THEN [k \in 1..3 |-> fov_center_offset[k] + iso[k]]
                 ELSE fov_center_offset])

----------------------------------------------------------------------------
(* SpecGeom: a two-slice table of one orientation is constructed and asked  *)
(* for its slice orientation and its affines.                               *)

Angulations == {<<ap, fh, rl>> : ap \in {0, 90}, fh \in {0, 90}, rl \in {0, 90}}
OffCenters == {<<ap, fh, rl>> : ap \in {0, 6}, fh \in {0, 6}, rl \in {0, 6}}
PixelSpacings == {<<30, 30>>, <<20, 40>>}

GeomLayout == [ns |-> 2, ne |-> 1, nt |-> 1, nb |-> 1, ng |-> 1, nl |-> 1, nd |-> 1]

GeomTable(code, spacing) ==
    [i \in 1..NRecs(GeomLayout) |->
        ("slice orientation" :> code) @@ ("pixel spacing" :> spacing) @@
        SliceRecord(GeomLayout, i - 1, 16)]

GeomInfo(angulation, off_center) ==
    [ max_slices           |-> GeomLayout.ns,
      max_echoes           |-> GeomLayout.ne,
      max_dynamics         |-> GeomLayout.nd,
      max_diffusion_values |-> GeomLayout.nb,
      max_gradient_orient  |-> GeomLayout.ng,
      nr_label_types       |-> GeomLayout.nl,
      repetition_time      |-> 2000,
      angulation           |-> angulation,
      off_center           |-> off_center,
      fov                  |-> <<240, 66, 200>> ]

InitGeom ==
    /\ \E code \in DOMAIN slice_orientation_codes, spacing \in PixelSpacings :
          /\ image_defs = GeomTable(code, spacing)
          /\ orig_defs = GeomTable(code, spacing)
    /\ \E angulation \in Angulations, off_center \in OffCenters :
          general_info = GeomInfo(angulation, off_center)
    /\ strict_sort = FALSE
    /\ hdr = NoHeader
    /\ wlist = 0
    /\ out = NoCall
    /\ fobj = <<>>
    /\ mem = NoMem
    /\ slice_nos = <<>>
    /\ slice_count = 1
    /\ slice_min = 1

\* PARRECHeader(general_info, image_defs)
ConstructGeom ==
    /\ hdr.status = "none"
    /\ hdr' = header_init(general_info, image_defs)
    /\ UNCHANGED <<ioVars, volVars, general_info, image_defs, orig_defs, strict_sort, wlist, out>>

\* hdr.get_slice_orientation()
GetSliceOrientation ==
    /\ hdr.status = "ok"
    /\ out' = get_slice_orientation(image_defs, hdr)
    /\ hdr' = remember_slice_orientation(hdr, get_slice_orientation(image_defs, hdr))
    /\ UNCHANGED <<ioVars, volVars, general_info, image_defs, orig_defs, strict_sort, wlist>>

\* hdr.get_affine(), hdr.get_affine(origin='scanner'), hdr.get_affine(origin='fov')
GetAffine ==
    /\ hdr.status = "ok"
    /\ \E args \in {<<>>, <<"scanner">>, <<"fov">>} :
          LET origin == IF args = <<>> THEN "scanner" ELSE args[1]
          IN out' = WithArgs(get_affine(general_info, image_defs, hdr, origin), args)
    /\ general_info' = ang_rad(general_info).general_info
    /\ hdr' = IF get_voxel_size(image_defs).raised # "none" THEN hdr
              ELSE remember_slice_orientation(hdr, get_slice_orientation(image_defs, hdr))
    /\ UNCHANGED <<ioVars, volVars, image_defs, orig_defs, strict_sort, wlist>>

NextGeom == ConstructGeom \/ GetSliceOrientation \/ GetAffine

SpecGeom == InitGeom /\ [][NextGeom]_vars

Abs(x) == IF x < 0 THEN 0 - x ELSE x

\* C15: get_affine() is get_affine(origin='scanner'); the scanner and fov
\* affines have the same 3x3 block; the scanner translation is the fov
\* translation plus off_center reordered to (rl, ap, fh) with a sign per
\* component, so the two differ whenever off_center is not zero.
C15_ScannerIsFovPlusOffCenter ==
    (out.op = "get_affine" /\ out.raised = "none") =>
        LET scanner == get_affine(general_info, image_defs, hdr, "scanner").value
            fov == get_affine(general_info, image_defs, hdr, "fov").value
            off == general_info.off_center
            reordered == <<off[3], off[1], off[2]>>
        IN /\ out.args = <<>> => out.value = scanner
           /\ scanner.block = fov.block
           /\ \A k \in 1..3 :
                 Abs(scanner.translation[k] - fov.translation[k]) = Abs(reordered[k])
           /\ off # <<0, 0, 0>> => scanner.translation # fov.translation

\* the affine the identity rotation gives for an orientation code: z the
\* zooms (spacings, thickness + gap), v the voxel size, f the field of view
\* (ap, fh, rl); halves are exact
ExpectedAffine(code, z, v, f) ==
    IF code = 1
    THEN [block |-> << <<0 - z[1], 0, 0>>, <<0, 0 - z[2], 0>>, <<0, 0, z[3]>> >>,
          translation |-> <<(f[3] - v[1]) \div 2, (f[1] - v[2]) \div 2, (v[3] - f[2]) \div 2>>]
    ELSE IF code = 2
    THEN [block |-> << <<0, 0, z[3]>>, <<0 - z[1], 0, 0>>, <<0, 0 - z[2], 0>> >>,
          translation |-> <<(v[3] - f[3]) \div 2, (f[1] - v[1]) \div 2, (f[2] - v[2]) \div 2>>]
    ELSE [block |-> << <<0 - z[1], 0, 0>>, <<0, 0, 0 - z[3]>>, <<0, 0 - z[2], 0>> >>,
          translation |-> <<(f[3] - v[1]) \div 2, (f[1] - v[3]) \div 2, (f[2] - v[2]) \div 2>>]

\* C16: with zero angulation and zero off_center get_affine returns, for
\* each slice orientation, the axis remap of that orientation times
\* diag(in-plane spacings, thickness + gap) and the remap applied to
\* voxel/2 - permuted FOV/2 as translation.
C16_AffineOfIdentityRotation ==
    ( /\ out.op = "get_affine"
      /\ general_info.angulation = <<0, 0, 0>>
      /\ general_info.off_center = <<0, 0, 0>> ) =>
        LET r == image_defs[1]
            v == <<r["pixel spacing"][1], r["pixel spacing"][2], r["slice thickness"]>>
            z == <<v[1], v[2], v[3] + r["slice gap"]>>
        IN /\ out.raised = "none"
           /\ out.value = ExpectedAffine(r["slice orientation"], z, v, general_info.fov)

C16_Witness ==
    /\ out.op = "get_affine"
    /\ out.raised = "none"
    /\ general_info.angulation = <<0, 0, 0>>
    /\ general_info.off_center = <<0, 0, 0>>
    /\ image_defs[1]["slice orientation"] = 3
    /\ out.value.block = << <<-30, 0, 0>>, <<0, 0, -33>>, <<0, -30, 0>> >>
    /\ out.value.translation = <<85, 105, 18>>

\* C17: get_slice_orientation gives 'transverse', 'sagittal', 'coronal' for
\* the unique slice orientation code 1, 2, 3, and get_affine finds an axis
\* remap for each of them.
C17_OrientationLabels ==
    /\ (out.op = "get_slice_orientation" /\ out.raised = "none") =>
          out.value = ((1 :> "transverse") @@ (2 :> "sagittal") @@ (3 :> "coronal"))
                          [image_defs[1]["slice orientation"]]
    /\ out.op = "get_affine" => out.raised = "none"

----------------------------------------------------------------------------
(* Scaling of a header. A slope or intercept is the fraction <<n, d>>.      *)

\* mutant: the fp intercept is divided by the scale slope only
get_data_scaling_fp_by_scale_slope(defs, method) ==
    LET scale_slope == get_unique_image_prop(defs, "scale slope")
        rescale_slope == get_unique_image_prop(defs, "rescale slope")
        rescale_intercept == get_unique_image_prop(defs, "rescale intercept")
    IN IF scale_slope.raised # "none" \/ rescale_slope.raised # "none"
          \/ rescale_intercept.raised # "none"
       THEN Raised("get_data_scaling", "PARRECError")
       ELSE IF method = "dv"
       THEN Returned("get_data_scaling",
               [slope |-> <<rescale_slope.value[1], 1>>,
                intercept |-> <<rescale_intercept.value[1], 1>>])
       ELSE Returned("get_data_scaling",
               [slope |-> <<1, scale_slope.value[1]>>,
                intercept |-> <<rescale_intercept.value[1], scale_slope.value[1]>>])

\* get_data_scaling(method): (slope, intercept) of the whole series
get_data_scaling(defs, method) ==
    LET scale_slope == get_unique_image_prop(defs, "scale slope")
        rescale_slope == get_unique_image_prop(defs, "rescale slope")
        rescale_intercept == get_unique_image_prop(defs, "rescale intercept")
    IN IF scale_slope.raised # "none"
       THEN Raised("get_data_scaling", scale_slope.raised)
       ELSE IF rescale_slope.raised # "none"
       THEN Raised("get_data_scaling", rescale_slope.raised)
       ELSE IF rescale_intercept.raised # "none"
       THEN Raised("get_data_scaling", rescale_intercept.raised)
       ELSE IF method = "dv"
       THEN Returned("get_data_scaling",
               [slope |-> <<rescale_slope.value[1], 1>>,
                intercept |-> <<rescale_intercept.value[1], 1>>])
       ELSE IF method = "fp"
       THEN Returned("get_data_scaling",
               [slope |-> <<1, scale_slope.value[1]>>,
                intercept |-> <<rescale_intercept.value[1],
                                rescale_slope.value[1] * scale_slope.value[1]>>])
       ELSE Raised("get_data_scaling", "ValueError")

\* the scaling fields of one record
ScalingValues ==
    { ("rescale slope" :> rs) @@ ("rescale intercept" :> ri) @@ ("scale slope" :> ss) :
        rs \in {1, 2}, ri \in {0, 3}, ss \in {1, 3} }

ScaleTable(scalings) ==
    [i \in 1..NRecs(GeomLayout) |-> scalings[i] @@ SliceRecord(GeomLayout, i - 1, 16)]

InitScale ==
    /\ \E scalings \in [1..NRecs(GeomLayout) -> ScalingValues] :
          /\ image_defs = ScaleTable(scalings)
          /\ orig_defs = ScaleTable(scalings)
    /\ general_info = GeneralInfo(GeomLayout)
    /\ strict_sort = FALSE
    /\ hdr = NoHeader
    /\ wlist = 0
    /\ out = NoCall
    /\ fobj = <<>>
    /\ mem = NoMem
    /\ slice_nos = <<>>
    /\ slice_count = 1
    /\ slice_min = 1

\* PARRECHeader(general_info, image_defs)
ConstructScale ==
    /\ hdr.status = "none"
    /\ hdr' = header_init(general_info, image_defs)
    /\ UNCHANGED <<ioVars, volVars, general_info, image_defs, orig_defs, strict_sort, wlist, out>>

\* hdr.get_data_scaling(), hdr.get_data_scaling('dv'), hdr.get_data_scaling('fp')
GetDataScaling ==
    /\ hdr.status = "ok"
    /\ \E args \in {<<>>, <<"dv">>, <<"fp">>, <<"pv">>} :
          LET method == IF args = <<>> THEN "dv" ELSE args[1]
          IN out' = WithArgs(get_data_scaling(image_defs, method), args)
    /\ UNCHANGED <<ioVars, volVars, hdrVars>>

NextScale == ConstructScale \/ GetDataScaling

SpecScale == InitScale /\ [][NextScale]_vars

\* equality of two fractions
SameFraction(a, b) == a[1] * b[2] = b[1] * a[2]

\* raw * slope + intercept, as a fraction
Scaled(raw, scaling) ==
    <<raw * scaling.slope[1] * scaling.intercept[2] + scaling.intercept[1] * scaling.slope[2],
      scaling.slope[2] * scaling.intercept[2]>>

RawValues == {0, 1, 5}

UniformScaling ==
    \A name \in {"rescale slope", "rescale intercept", "scale slope"} :
        Cardinality(Range(column(image_defs, name))) = 1

\* C18: 'dv' gives (rescale slope, rescale intercept), 'fp' gives
\* (1 / scale slope, rescale intercept / (rescale slope * scale slope)), no
\* argument gives 'dv', and every raw value scaled by 'fp' is the value
\* scaled by 'dv' divided by rescale slope * scale slope.
C18_DataScaling ==
    (out.op = "get_data_scaling" /\ UniformScaling /\ out.args # <<"pv">>) =>
        LET rs == image_defs[1]["rescale slope"]
            ri == image_defs[1]["rescale intercept"]
            ss == image_defs[1]["scale slope"]
            dv == get_data_scaling(image_defs, "dv").value
            fp == get_data_scaling(image_defs, "fp").value
        IN /\ out.raised = "none"
           /\ out.args \in {<<>>, <<"dv">>} =>
                 /\ SameFraction(out.value.slope, <<rs, 1>>)
                 /\ SameFraction(out.value.intercept, <<ri, 1>>)
           /\ out.args = <<"fp">> =>
                 /\ SameFraction(out.value.slope, <<1, ss>>)
                 /\ SameFraction(out.value.intercept, <<ri, rs * ss>>)
                 /\ \A raw \in RawValues :
                       SameFraction(Scaled(raw, out.value),
                                    <<Scaled(raw, dv)[1], Scaled(raw, dv)[2] * rs * ss>>)

C18_Witness ==
    /\ out.op = "get_data_scaling"
    /\ out.args = <<"fp">>
    /\ out.raised = "none"
    /\ image_defs[1]["rescale slope"] = 2
    /\ image_defs[1]["rescale intercept"] = 3
    /\ image_defs[1]["scale slope"] = 3
    /\ out.value = [slope |-> <<1, 3>>, intercept |-> <<3, 6>>]

\* C19: when a scaling field differs between slices get_data_scaling does
\* not fail: it returns one slope and one intercept per slice, by the same
\* dv / fp formulas.
C19_PerSliceScaling ==
    (out.op = "get_data_scaling" /\ ~UniformScaling /\ out.args # <<"pv">>) =>
        /\ out.raised = "none"
        /\ Len(out.value.slope) = Len(image_defs)
        /\ Len(out.value.intercept) = Len(image_defs)
        /\ \A i \in DOMAIN image_defs :
              LET rs == image_defs[i]["rescale slope"]
                  ri == image_defs[i]["rescale intercept"]
                  ss == image_defs[i]["scale slope"]
              IN IF out.args = <<"fp">>
                 THEN /\ SameFraction(out.value.slope[i], <<1, ss>>)
                      /\ SameFraction(out.value.intercept[i], <<ri, rs * ss>>)
                 ELSE /\ SameFraction(out.value.slope[i], <<rs, 1>>)
                      /\ SameFraction(out.value.intercept[i], <<ri, 1>>)

\* C29: for every general information and table get_ndim (the number of
\* zooms) is the length of the shape get_data_shape_in_file returns, so no
\* header pairs four zooms with a 3-D shape or three with a 4-D shape.
C29_NdimIsShapeLength ==
    (hdr.status # "none" /\ ~hdr.permit_truncated) =>
        LET shape == get_data_shape_in_file(general_info, hdr.given)
        IN /\ shape.raised = "none" => Len(shape.value) = get_ndim(general_info)
           /\ hdr.status = "ok" => Len(hdr.zooms) = Len(hdr.shape)

----------------------------------------------------------------------------
(* parse_PAR_header. A line is a sequence of tokens; the token " " stands  *)
(* for white space at either end of a line, "#" and "." for the leading     *)
(* character of a comment and of a general information line, ":" for the    *)
(* colon after a key. Numbers are written as digit strings.                 *)

supported_versions == {"V4.2"}

\* _hdr_key_dict, the entries the PAR files of this model use:
\* key |-> (shortname, dtype, number of elements); dtype "str" stands for an
\* entry without dtype
hdr_key_dict ==
    ("Patient position" :> <<"patient_position", "str", 1>>) @@
    ("Max. number of slices/locations" :> <<"max_slices", "int", 1>>) @@
    ("Repetition time [ms]" :> <<"repetition_time", "float", 1>>) @@
    ("FOV (ap,fh,rl) [mm]" :> <<"fov", "float", 3>>)

\* image_def_dtd: (name, dtype, number of elements) per field, in line order
image_def_dtd ==
    << <<"slice number", "int", 1>>, <<"echo number", "int", 1>>,
       <<"dynamic scan number", "int", 1>>, <<"cardiac phase number", "int", 1>>,
       <<"image_type_mr", "int", 1>>, <<"scanning sequence", "int", 1>>,
       <<"index in REC file", "int", 1>>, <<"image pixel size", "int", 1>>,
       <<"scan percentage", "int", 1>>, <<"recon resolution", "int", 2>>,
       <<"rescale intercept", "float", 1>>, <<"rescale slope", "float", 1>>,
       <<"scale slope", "float", 1>>, <<"window center", "int", 1>>,
       <<"window width", "int", 1>>, <<"image angulation", "float", 3>>,
       <<"image offcentre", "float", 3>>, <<"slice thickness", "float", 1>>,
       <<"slice gap", "float", 1>>, <<"image_display_orientation", "int", 1>>,
       <<"slice orientation", "int", 1>>, <<"fmri_status_indication", "int", 1>>,
       <<"image_type_ed_es", "int", 1>>, <<"pixel spacing", "float", 2>>,
       <<"echo_time", "float", 1>>, <<"dyn_scan_begin_time", "float", 1>>,
       <<"trigger_time", "float", 1>>, <<"diffusion_b_factor", "float", 1>>,
       <<"number of averages", "int", 1>>, <<"image_flip_angle", "float", 1>>,
       <<"cardiac frequency", "int", 1>>, <<"minimum RR-interval", "int", 1>>,
       <<"maximum RR-interval", "int", 1>>, <<"TURBO factor", "int", 1>>,
       <<"Inversion delay", "float", 1>>, <<"diffusion b value number", "int", 1>>,
       <<"gradient orientation number", "int", 1>>, <<"contrast type", "str", 1>>,
       <<"diffusion anisotropy type", "str", 1>>, <<"diffusion", "float", 3>>,
       <<"label type", "int", 1>> >>

DigitStrings == <<"0", "1", "2", "3", "4", "5", "6", "7", "8", "9">>

\* int(token) / float(token): the number a digit string writes, ValueError
\* for any other token
to_number(token) ==
    IF \E d \in DOMAIN DigitStrings : DigitStrings[d] = token
    THEN Returned("int", (CHOOSE d \in DOMAIN DigitStrings : DigitStrings[d] = token) - 1)
    ELSE Raised("int", "ValueError")

\* line.strip()
RECURSIVE strip(_)
strip(line) ==
    IF line = <<>> THEN line
    ELSE IF Head(line) = " " THEN strip(Tail(line))
    ELSE IF line[Len(line)] = " " THEN strip(SubSeq(line, 1, Len(line) - 1))
    ELSE line

\* str.find: position of the first occurrence of a token, 0 when absent
find(line, token) ==
    IF \E i \in DOMAIN line : line[i] = token
    THEN CHOOSE i \in DOMAIN line : line[i] = token /\ \A j \in 1..(i - 1) : line[j] # token
    ELSE 0

\* np.fromstring(" ".join(tokens), dtype, sep=' ')
RECURSIVE fromstring(_)
fromstring(tokens) ==
    IF tokens = <<>> THEN Returned("fromstring", <<>>)
    ELSE LET first == to_number(Head(tokens))
             rest == fromstring(Tail(tokens))
         IN IF first.raised # "none" THEN Raised("fromstring", first.raised)
            ELSE IF rest.raised # "none" THEN rest
            ELSE Returned("fromstring", <<first.value>> \o rest.value)

\* the value of a general information line, turned into its dtype
convert_value(props, value) ==
    IF props[2] = "str" THEN Returned("value", value)
    ELSE IF props[3] = 1
    THEN IF Len(value) # 1 THEN Raised("value", "ValueError") ELSE to_number(value[1])
    ELSE LET numbers == fromstring(value)
         IN IF numbers.raised # "none" THEN numbers
            ELSE IF Len(numbers.value) # props[3] THEN Raised("value", "ValueError")
            ELSE numbers

\* mutant: a key the registry does not know is skipped
general_info_line_skips_unknown(general_info_, line) ==
    LET rest == Tail(line)
        colon == find(rest, ":")
        key == IF colon = 0 THEN <<>> ELSE strip(SubSeq(rest, 1, colon - 1))
        value == strip(SubSeq(rest, colon + 1, Len(rest)))
    IN IF Len(key) # 1 \/ key[1] \notin DOMAIN hdr_key_dict
       THEN Returned("general_info", general_info_)
       ELSE Returned("general_info",
                     (hdr_key_dict[key[1]][1] :> convert_value(hdr_key_dict[key[1]], value).value)
                         @@ general_info_)

\* a line starting with '.': key up to the first colon, value after it,
\* stored under the shortname of the key
general_info_line(general_info_, line) ==
    LET rest == Tail(line)
        colon == find(rest, ":")
        key == IF colon = 0 THEN <<>> ELSE strip(SubSeq(rest, 1, colon - 1))
        value == strip(SubSeq(rest, colon + 1, Len(rest)))
    IN IF Len(key) # 1 \/ key[1] \notin DOMAIN hdr_key_dict
       THEN Raised("general_info", "KeyError")
       ELSE LET props == hdr_key_dict[key[1]]
                converted == convert_value(props, value)
            IN IF converted.raised # "none" THEN Raised("general_info", converted.raised)
               ELSE Returned("general_info", (props[1] :> converted.value) @@ general_info_)

\* line.split(): the tokens of a line without white space
split(line) == SelectSeq(line, LAMBDA t : t # " ")

\* mutant: an array field moves the item counter by one
items_consumed_one(props) == 1

\* tokens a field of the image definition takes from the line
items_consumed(props) == props[3]

\* item_counter when the loop over image_def_dtd comes to field k
RECURSIVE item_counter_at(_)
item_counter_at(k) ==
    IF k = 1 THEN 0
    ELSE item_counter_at(k - 1) +
         (IF image_def_dtd[k - 1][2] = "str" \/ image_def_dtd[k - 1][3] = 1
          THEN 1 ELSE items_consumed(image_def_dtd[k - 1]))

\* the value field k gets from the items of a line
decode_field(items, k) ==
    LET props == image_def_dtd[k]
        item_counter == item_counter_at(k)
    IN IF props[2] = "str" \/ props[3] = 1
       THEN IF item_counter + 1 > Len(items) THEN Raised("image_def", "IndexError")
            ELSE IF props[2] = "str" THEN Returned("str", items[item_counter + 1])
            ELSE to_number(items[item_counter + 1])
       ELSE LET nelements == props[3]
                last == IF item_counter + nelements > Len(items)
                        THEN Len(items) ELSE item_counter + nelements
                value == fromstring(SubSeq(items, item_counter + 1, last))
            IN IF value.raised # "none" THEN value
               ELSE IF Len(value.value) = nelements THEN value
               ELSE IF Len(value.value) = 1
               THEN Returned("fromstring", [e \in 1..nelements |-> value.value[1]])
               ELSE Raised("image_def", "ValueError")

\* one image definition line decoded field by field against image_def_dtd:
\* the first field that cannot be decoded ends the loop with its exception
decode_image_def(items) ==
    LET failing == {k \in DOMAIN image_def_dtd : decode_field(items, k).raised # "none"}
    IN IF failing # {}
       THEN Raised("image_def",
                   decode_field(items, CHOOSE k \in failing : \A l \in failing : k <= l).raised)
       ELSE Returned("image_def",
               [name \in {image_def_dtd[k][1] : k \in DOMAIN image_def_dtd} |->
                   decode_field(items,
                       CHOOSE k \in DOMAIN image_def_dtd : image_def_dtd[k][1] = name).value])

\* the image definitions of all stored lines, in the order they were stored
RECURSIVE image_defs_of(_)
image_defs_of(image_info) ==
    IF image_info = <<>> THEN Returned("image_defs", <<>>)
    ELSE LET row == decode_image_def(split(Head(image_info)))
             rest == image_defs_of(Tail(image_info))
         IN IF row.raised # "none" THEN Raised("image_defs", row.raised)
            ELSE IF rest.raised # "none" THEN rest
            ELSE Returned("image_defs", <<row.value>> \o rest.value)

\* mutant: every version line warns
version_warns_always(version) == TRUE

\* a version line warns when its version is not a supported one
version_warns(version) == version \notin supported_versions

\* the outcome of a parse and the warnings emitted on the way
Parsed(outcome, warnings) == [outcome |-> outcome, warnings |-> warnings]

\* the single pass over the lines of the file
RECURSIVE parse_lines(_, _, _, _)
parse_lines(lines, general_info_, image_info, warnings) ==
    IF lines = <<>>
    THEN LET defs == image_defs_of(image_info)
         IN IF defs.raised # "none"
            THEN Parsed(Raised("parse_PAR_header", defs.raised), warnings)
            ELSE Parsed(Returned("parse_PAR_header",
                                 [general_info |-> general_info_, image_defs |-> defs.value]),
                        warnings)
    ELSE LET line == strip(Head(lines))
         IN IF line # <<>> /\ Head(line) = "#"
            THEN IF \E i \in DOMAIN line : line[i] = "image export tool"
                 THEN parse_lines(Tail(lines), general_info_, image_info,
                                  IF version_warns(split(line)[Len(split(line))])
                                  THEN warnings + 1 ELSE warnings)
                 ELSE parse_lines(Tail(lines), general_info_, image_info, warnings)
            ELSE IF line # <<>> /\ Head(line) = "."
            THEN LET stored == general_info_line(general_info_, line)
                 IN IF stored.raised # "none"
                    THEN Parsed(Raised("parse_PAR_header", stored.raised), warnings)
                    ELSE parse_lines(Tail(lines), stored.value, image_info, warnings)
            ELSE IF line # <<>>
            THEN parse_lines(Tail(lines), general_info_, Append(image_info, line), warnings)
            ELSE parse_lines(Tail(lines), general_info_, image_info, warnings)

parse_PAR_header(lines) == parse_lines(lines, <<>>, <<>>, 0)

----------------------------------------------------------------------------
(* SpecParse: short PAR files made of blank lines, comments, version lines, *)
(* general information lines and image definition lines are parsed.         *)

MaxLines == 2       \* longest PAR file handed to the parser

\* an image definition line: one token per item of image_def_dtd
ImageLine(a) ==
    [k \in 1..49 |-> DigitStrings[((a * k + (k \div 7)) % 10) + 1]]

SampleLines ==
    { <<>>,
      <<" ">>,
      <<"#", "=== DATA DESCRIPTION FILE ===">>,
      <<" ", "#", "sl ec dyn ph ty">>,
      <<"#", "CLINICAL TRYOUT", "image export tool", "V4.2">>,
      <<"#", "CLINICAL TRYOUT", "image export tool", "V4.1">>,
      <<".", "Max. number of slices/locations", ":", "2">>,
      <<".", " ", "Patient position", " ", ":", " ", "Head First Supine", " ">>,
      <<".", "Repetition time [ms]", ":", "7">>,
      <<".", "Repetition time [msec]", ":", "7">>,
      <<".", "FOV (ap,fh,rl) [mm]", ":", "2", "6", "4">>,
      <<".", "Unknown key", ":", "1">>,
      ImageLine(1),
      <<" ">> \o ImageLine(3) \o <<" ">> }

InitParse ==
    /\ fobj \in SeqsUpTo(SampleLines, MaxLines)
    /\ mem = NoMem
    /\ out = NoCall
    /\ wlist = 0
    /\ general_info = NoInfo
    /\ image_defs = <<>>
    /\ orig_defs = <<>>
    /\ strict_sort = FALSE
    /\ hdr = NoHeader
    /\ slice_nos = <<>>
    /\ slice_count = 1
    /\ slice_min = 1

\* parse_PAR_header(fobj)
ParsePARHeader ==
    /\ out.op = "none"
    /\ out' = parse_PAR_header(fobj).outcome
    /\ wlist' = parse_PAR_header(fobj).warnings
    /\ UNCHANGED <<ioVars, volVars, general_info, image_defs, orig_defs, strict_sort, hdr>>

NextParse == ParsePARHeader

SpecParse == InitParse /\ [][NextParse]_vars

\* the lines of the file by their leading character once stripped
IsComment(line) == strip(line) # <<>> /\ Head(strip(line)) = "#"
IsGeneral(line) == strip(line) # <<>> /\ Head(strip(line)) = "."
IsImageDef(line) == strip(line) # <<>> /\ Head(strip(line)) \notin {"#", "."}
IsVersion(line) == IsComment(line) /\ "image export tool" \in Range(line)

\* the key of a general information line
KeyOf(line) == CHOOSE t \in Range(line) : t \notin {".", ":", " "} /\
                   \E i \in DOMAIN line : line[i] = t /\ \A j \in 1..(i - 1) : line[j] \in {".", " "}

\* alias spellings of registry keys
KeyAliases == ("Repetition time [msec]" :> "Repetition time [ms]")

CanonicalKeys ==
    {"Patient position", "Max. number of slices/locations", "Repetition time [ms]",
     "FOV (ap,fh,rl) [mm]"}

ShortNames ==
    ("Patient position" :> "patient_position") @@
    ("Max. number of slices/locations" :> "max_slices") @@
    ("Repetition time [ms]" :> "repetition_time") @@
    ("FOV (ap,fh,rl) [mm]" :> "fov")

\* C21: the parse fails with a lookup error, returning nothing, when a
\* general information line has a key that is neither a canonical nor an
\* alias spelling; a key in alias spelling is stored under the canonical
\* name.
C21_UnknownKeyFailsAliasResolves ==
    out.op = "parse_PAR_header" =>
        LET keys == {KeyOf(fobj[i]) : i \in {j \in DOMAIN fobj : IsGeneral(fobj[j])}}
        IN IF \E k \in keys : k \notin CanonicalKeys \cup DOMAIN KeyAliases
           THEN out.raised = "KeyError"
           ELSE /\ out.raised = "none"
                /\ \A k \in keys \cap DOMAIN KeyAliases :
                      ShortNames[KeyAliases[k]] \in DOMAIN out.value.general_info

\* the file with every version line announcing the supported version
WithSupportedVersion(lines) ==
    [i \in DOMAIN lines |->
        IF IsVersion(lines[i])
        THEN [lines[i] EXCEPT ![Len(lines[i])] = "V4.2"]
        ELSE lines[i]]

\* C22: a version line announcing an unsupported version only warns: the
\* parse returns (or fails) exactly as for the same text with the supported
\* version, and a supported version does not warn.
C22_UnsupportedVersionOnlyWarns ==
    out.op = "parse_PAR_header" =>
        /\ out = parse_PAR_header(WithSupportedVersion(fobj)).outcome
        /\ parse_PAR_header(WithSupportedVersion(fobj)).warnings = 0
        /\ out.raised = "none" =>
              wlist = Cardinality({i \in DOMAIN fobj :
                          IsVersion(fobj[i]) /\ fobj[i][Len(fobj[i])] # "V4.2"})

C22_Witness ==
    /\ out.op = "parse_PAR_header"
    /\ out.raised = "none"
    /\ wlist = 1
    /\ Len(fobj) = 2
    /\ fobj[1] = <<"#", "CLINICAL TRYOUT", "image export tool", "V4.1">>
    /\ fobj[2] = <<".", "Max. number of slices/locations", ":", "2">>
    /\ out.value.general_info["max_slices"] = 2
    /\ out.value.image_defs = <<>>

\* the first token of each of the 41 fields of an image definition line:
\* recon resolution and pixel spacing take two tokens, image angulation,
\* image offcentre and diffusion three
FirstToken ==
    <<1, 2, 3, 4, 5, 6, 7, 8, 9, 10, 12, 13, 14, 15, 16, 17, 20, 23, 24, 25, 26, 27, 28,
      29, 31, 32, 33, 34, 35, 36, 37, 38, 39, 40, 41, 42, 43, 44, 45, 46, 49>>

NumberOf(token) == (CHOOSE d \in DOMAIN DigitStrings : DigitStrings[d] = token) - 1

\* what field k of a line holds
FieldOf(tokens, k) ==
    LET first == FirstToken[k]
        props == image_def_dtd[k]
    IN IF props[2] = "str" THEN tokens[first]
       ELSE IF props[3] = 1 THEN NumberOf(tokens[first])
       ELSE [e \in 1..props[3] |-> NumberOf(tokens[first + e - 1])]

\* C27: blank lines and comments store nothing, '.' lines go to the general
\* information, every other line is one row of the table, in file order,
\* each field decoded from the line's tokens in schema order, an array
\* field taking as many tokens as it has elements.
C27_LinesClassifiedAndDecoded ==
    (out.op = "parse_PAR_header" /\ out.raised = "none") =>
        LET image_lines == SelectSeq(fobj, IsImageDef)
            table == out.value.image_defs
        IN /\ Len(table) = Len(image_lines)
           /\ \A i \in DOMAIN table :
                 /\ DOMAIN table[i] = {image_def_dtd[k][1] : k \in DOMAIN image_def_dtd}
                 /\ \A k \in DOMAIN image_def_dtd :
                       table[i][image_def_dtd[k][1]] =
                           FieldOf(SelectSeq(image_lines[i], LAMBDA t : t # " "), k)
           /\ DOMAIN out.value.general_info =
                 {ShortNames[KeyOf(fobj[i])] : i \in {j \in DOMAIN fobj : IsGeneral(fobj[j])}}

C27_Witness ==
    /\ out.op = "parse_PAR_header"
    /\ out.raised = "none"
    /\ Len(fobj) = 2
    /\ fobj[1] = ImageLine(1) /\ fobj[2] = <<" ">> \o ImageLine(3) \o <<" ">>
    /\ Len(out.value.image_defs) = 2
    /\ out.value.image_defs[1]["recon resolution"] = <<1, 2>>
    /\ out.value.image_defs[1]["rescale intercept"] = 3
    /\ out.value.image_defs[2]["slice number"] = 3

----------------------------------------------------------------------------
(* SpecQuery: a constructed header is queried in any order. SpecMemo: the   *)
(* slice orientation and the affine are queried while the caller assigns to *)
(* columns of the header's image_defs in place.                             *)

\* PARRECHeader(info, image_defs, default_scaling)
header_init_scaling(info, defs, default_scaling) ==
    [header_init(info, defs) EXCEPT !.default_scaling = default_scaling]

\* get_slope_inter(): get_data_scaling with the header's default_scaling
get_slope_inter(defs, h) ==
    [get_data_scaling(defs, h.default_scaling) EXCEPT !.op = "get_slope_inter"]

\* image_defs[name] = value: the column is overwritten in every record
set_column(defs, name, value) ==
    [i \in DOMAIN defs |-> [defs[i] EXCEPT ![name] = value]]

QueryAngulations == {<<0, 0, 0>>, <<0, 90, 0>>}
QueryThicknesses == {10, 30}

InitQuery ==
    /\ \E code \in DOMAIN slice_orientation_codes :
          /\ image_defs = GeomTable(code, <<30, 30>>)
          /\ orig_defs = GeomTable(code, <<30, 30>>)
    /\ \E angulation \in QueryAngulations :
          general_info = GeomInfo(angulation, <<6, 0, 6>>)
    /\ strict_sort = FALSE
    /\ hdr = NoHeader
    /\ wlist = 0
    /\ out = NoCall
    /\ fobj = <<>>
    /\ mem = NoMem
    /\ slice_nos = <<>>
    /\ slice_count = 1
    /\ slice_min = 1

\* PARRECHeader(general_info, image_defs), PARRECHeader(..., default_scaling='fp')
ConstructQuery ==
    /\ hdr.status = "none"
    /\ \E default_scaling \in {"dv", "fp"} :
          hdr' = header_init_scaling(general_info, image_defs, default_scaling)
    /\ UNCHANGED <<ioVars, volVars, general_info, image_defs, orig_defs, strict_sort, wlist, out>>

\* hdr.image_defs['slice orientation'] = code, hdr.image_defs['slice thickness'] = mm
SetImageDefs ==
    /\ hdr.status = "ok"
    /\ \/ \E code \in DOMAIN slice_orientation_codes :
             image_defs' = set_column(image_defs, "slice orientation", code)
       \/ \E mm \in QueryThicknesses :
             image_defs' = set_column(image_defs, "slice thickness", mm)
    /\ UNCHANGED <<ioVars, volVars, general_info, orig_defs, strict_sort, hdr, wlist, out>>

\* hdr.get_slope_inter()
GetSlopeInter ==
    /\ hdr.status = "ok"
    /\ out' = get_slope_inter(image_defs, hdr)
    /\ UNCHANGED <<ioVars, volVars, hdrVars>>

\* hdr.get_voxel_size()
GetVoxelSize ==
    /\ hdr.status = "ok"
    /\ out' = get_voxel_size(image_defs)
    /\ UNCHANGED <<ioVars, volVars, hdrVars>>

\* hdr.get_ndim()
GetNdim ==
    /\ hdr.status = "ok"
    /\ out' = Returned("get_ndim", get_ndim(general_info))
    /\ UNCHANGED <<ioVars, volVars, hdrVars>>

\* hdr.get_data_shape_in_file()
GetDataShapeInFile ==
    /\ hdr.status = "ok"
    /\ out' = [get_data_shape_in_file(general_info, image_defs)
                  EXCEPT !.op = "get_data_shape_in_file"]
    /\ UNCHANGED <<ioVars, volVars, hdrVars>>

Query ==
    \/ GetAffine
    \/ GetDataScaling
    \/ GetSlopeInter
    \/ GetVoxelSize
    \/ GetNdim
    \/ GetDataShapeInFile

NextQuery == ConstructQuery \/ GetSliceOrientation \/ Query

SpecQuery == InitQuery /\ [][NextQuery]_vars

NextMemo == ConstructQuery \/ SetImageDefs \/ GetSliceOrientation \/ GetAffine

SpecMemo == InitQuery /\ [][NextMemo]_vars

C26_OrientationReflectsImageDefs ==
    [][GetSliceOrientation =>
          /\ out'.raised = "none"
          /\ out'.value = slice_orientation_codes[image_defs[1]["slice orientation"]]]_vars

\* what a query with these arguments returns on the header as it is
Result(op, args) ==
    IF op = "get_affine"
    THEN get_affine(general_info, image_defs, hdr, IF args = <<>> THEN "scanner" ELSE args[1])
    ELSE IF op = "get_data_scaling"
    THEN get_data_scaling(image_defs, IF args = <<>> THEN "dv" ELSE args[1])
    ELSE IF op = "get_slope_inter" THEN get_slope_inter(image_defs, hdr)
    ELSE IF op = "get_voxel_size" THEN get_voxel_size(image_defs)
    ELSE IF op = "get_ndim" THEN Returned("get_ndim", get_ndim(general_info))
    ELSE [get_data_shape_in_file(general_info, image_defs)
             EXCEPT !.op = "get_data_shape_in_file"]

Calls ==
    {<<"get_affine", <<>>>>, <<"get_affine", <<"scanner">>>>, <<"get_affine", <<"fov">>>>,
     <<"get_data_scaling", <<>>>>, <<"get_data_scaling", <<"dv">>>>,
     <<"get_data_scaling", <<"fp">>>>, <<"get_data_scaling", <<"pv">>>>,
     <<"get_slope_inter", <<>>>>, <<"get_voxel_size", <<>>>>, <<"get_ndim", <<>>>>,
     <<"get_data_shape_in_file", <<>>>>}

\* C28: a call of get_affine, get_data_scaling, get_slope_inter,
\* get_voxel_size, get_ndim or get_data_shape_in_file leaves general_info
\* and image_defs as they were, and after it each of these calls returns
\* what it would have returned before it: repeated calls with equal
\* arguments give equal results.
C28_QueriesArePure ==
    [][Query =>
          /\ general_info' = general_info
          /\ image_defs' = image_defs
          /\ \A call \in Calls : Result(call[1], call[2])' = Result(call[1], call[2])
          /\ \E call \in Calls :
                /\ out'.op = call[1] /\ out'.args = call[2]
                /\ out'.value = Result(call[1], call[2]).value
                /\ out'.raised = Result(call[1], call[2]).raised]_vars

C28_Witness ==
    /\ out.op = "get_affine"
    /\ out.args = <<"fov">>
    /\ out.raised = "none"
    /\ general_info.angulation = <<0, 90, 0>>
    /\ hdr.slice_orientation = "coronal"
    /\ hdr.default_scaling = "fp"
    /\ out.value.block # << <<0, 0, 0>>, <<0, 0, 0>>, <<0, 0, 0>> >>

----------------------------------------------------------------------------
(* SpecCopy: objects and references. mem.objects[ref] is the value of the   *)
(* dict or array with reference ref; HDR_INFO and HDR_DEFS are the caller's *)
(* objects, general_info and image_defs their content as loaded. A header   *)
(* holds the references of its general_info and its image_defs.             *)

MaxHeaders == 2     \* headers made of one pair of caller objects

\* a new object with this value; its reference is the next free one
alloc(m, value) == [m EXCEPT !.objects = Append(@, value)]

\* PARRECHeader(info, image_defs, default_scaling): the two arguments are
\* stored as they come, self.general_info = info, self.image_defs = image_defs
PARRECHeader(m, info, defs, default_scaling) ==
    [general_info |-> info,
     image_defs |-> defs,
     header |-> header_init_scaling(m.objects[info], m.objects[defs], default_scaling)]

\* mutant: the copy is made over the image_defs array of the original
copy_shares_image_defs(m, h) ==
    LET copied == alloc(m, m.objects[h.general_info])
    IN [mem |-> copied,
        returned |-> PARRECHeader(copied, Len(copied.objects), h.image_defs, "dv")]

\* copy(): PARRECHeader(copy.deepcopy(self.general_info), self.image_defs.copy())
copy(m, h) ==
    LET copied == alloc(alloc(m, m.objects[h.general_info]), m.objects[h.image_defs])
    IN [mem |-> copied,
        returned |-> PARRECHeader(copied, Len(copied.objects) - 1, Len(copied.objects), "dv")]

\* obj[key] = value on the object with this reference
setitem(m, ref, value) == [m EXCEPT !.objects[ref] = value]

CopyScalings ==
    { ("rescale slope" :> rs) @@ ("rescale intercept" :> ri) @@ ("scale slope" :> 3) :
        rs \in {1, 2}, ri \in {0, 3} }

InitCopy ==
    /\ \E scaling \in CopyScalings :
          /\ image_defs = ScaleTable([i \in 1..NRecs(GeomLayout) |-> scaling])
          /\ orig_defs = image_defs
    /\ general_info = GeneralInfo(GeomLayout)
    /\ mem = [objects |-> <<general_info, image_defs>>, HDR_INFO |-> 1, HDR_DEFS |-> 2,
              headers |-> <<>>]
    /\ strict_sort = FALSE
    /\ hdr = NoHeader
    /\ wlist = 0
    /\ out = NoCall
    /\ fobj = <<>>
    /\ slice_nos = <<>>
    /\ slice_count = 1
    /\ slice_min = 1

\* hdr = PARRECHeader(HDR_INFO, HDR_DEFS), PARRECHeader(..., default_scaling='fp')
NewHeader ==
    /\ mem.headers = <<>>
    /\ \E default_scaling \in {"dv", "fp"} :
          mem' = [mem EXCEPT !.headers =
                     <<PARRECHeader(mem, mem.HDR_INFO, mem.HDR_DEFS, default_scaling)>>]
    /\ out' = Returned("PARRECHeader", <<1>>)
    /\ UNCHANGED <<fobj, volVars, hdrVars>>

\* hdr2 = hdr.copy()
Copy ==
    /\ mem.headers # <<>>
    /\ Len(mem.headers) < MaxHeaders
    /\ \E i \in DOMAIN mem.headers :
          LET made == copy(mem, mem.headers[i])
          IN IF made.returned.header.status = "ok"
             THEN /\ mem' = [made.mem EXCEPT !.headers = Append(@, made.returned)]
                  /\ out' = WithArgs(Returned("copy", <<Len(mem.headers) + 1>>), <<i>>)
             ELSE /\ mem' = mem
                  /\ out' = WithArgs(Raised("copy", made.returned.header.status), <<i>>)
    /\ UNCHANGED <<fobj, volVars, hdrVars>>

\* hdr.general_info['max_slices'] = 10
SetMaxSlices ==
    /\ \E i \in DOMAIN mem.headers :
          LET ref == mem.headers[i].general_info
          IN mem' = setitem(mem, ref, [mem.objects[ref] EXCEPT !.max_slices = 10])
    /\ UNCHANGED <<fobj, volVars, hdrVars, out>>

\* hdr.image_defs['image pixel size'] = 8
SetImagePixelSize ==
    /\ \E i \in DOMAIN mem.headers :
          LET ref == mem.headers[i].image_defs
          IN mem' = setitem(mem, ref, set_column(mem.objects[ref], "image pixel size", 8))
    /\ UNCHANGED <<fobj, volVars, hdrVars, out>>

\* hdr.get_slope_inter()
GetSlopeInterOf ==
    /\ \E i \in DOMAIN mem.headers :
          out' = WithArgs(get_slope_inter(mem.objects[mem.headers[i].image_defs],
                                          mem.headers[i].header), <<i>>)
    /\ UNCHANGED <<ioVars, volVars, hdrVars>>

NextCopy == NewHeader \/ Copy \/ SetMaxSlices \/ SetImagePixelSize \/ GetSlopeInterOf

SpecCopy == InitCopy /\ [][NextCopy]_vars

\* the content of a header's general_info and image_defs
ContentOf(m, i) ==
    <<m.objects[m.headers[i].general_info], m.objects[m.headers[i].image_defs]>>

\* C23: copy() returns another header with general_info and image_defs of
\* equal content in objects of its own: an assignment into the general_info
\* or image_defs of one header leaves those of every other header as they
\* were.
C23_CopyIsDeep ==
    /\ [][(Copy /\ out'.raised = "none") =>
             LET original == out'.args[1]
                 made == out'.value[1]
             IN /\ made \notin DOMAIN mem.headers
                /\ ContentOf(mem', made) = ContentOf(mem, original)
                /\ ContentOf(mem', original) = ContentOf(mem, original)
                /\ mem'.headers[made].general_info # mem'.headers[original].general_info
                /\ mem'.headers[made].image_defs # mem'.headers[original].image_defs]_vars
    /\ [][(SetMaxSlices \/ SetImagePixelSize) =>
             \A i, j \in DOMAIN mem.headers :
                (i # j /\ ContentOf(mem', i) # ContentOf(mem, i)) =>
                    ContentOf(mem', j) = ContentOf(mem, j)]_vars

C23_Witness ==
    /\ Len(mem.headers) = 2
    /\ ContentOf(mem, 1)[1].max_slices = 2
    /\ ContentOf(mem, 2)[1].max_slices = 10
    /\ ContentOf(mem, 1)[2][1]["image pixel size"] = 8
    /\ ContentOf(mem, 2)[2][1]["image pixel size"] = 16

\* C24: the header holds copies of the objects it was made of: neither its
\* general_info nor its image_defs is the caller's object, and the caller's
\* dict and array keep their content whatever is assigned through the
\* header.
C24_InitCopiesItsInputs ==
    mem.headers # <<>> =>
        /\ mem.headers[1].general_info # mem.HDR_INFO
        /\ mem.headers[1].image_defs # mem.HDR_DEFS
        /\ mem.objects[mem.HDR_INFO] = general_info
        /\ mem.objects[mem.HDR_DEFS] = image_defs

\* C30: a copy has the permit_truncated and the default_scaling of its
\* original, so that get_slope_inter() gives the same pair on both while
\* their image_defs are equal.
C30_CopyKeepsConfiguration ==
    \A i \in DOMAIN mem.headers :
        /\ mem.headers[i].header.permit_truncated = mem.headers[1].header.permit_truncated
        /\ mem.headers[i].header.default_scaling = mem.headers[1].header.default_scaling
        /\ ContentOf(mem, i)[2] = ContentOf(mem, 1)[2] =>
              get_slope_inter(ContentOf(mem, i)[2], mem.headers[i].header) =
                  get_slope_inter(ContentOf(mem, 1)[2], mem.headers[1].header)

====
